---- MODULE Spec2Model ----
(***************************************************************************)
(* Company Directory API (src/app): organizations in buildings, tagged     *)
(* with hierarchical activities.  The model covers the SQL store, the      *)
(* request pipeline of every endpoint (dependencies, key check, handler,   *)
(* response serialisation, session teardown), the startup seeding and the  *)
(* bounded-depth activity traversal.                                       *)
(*                                                                         *)
(* Text is modelled as a sequence of one-character strings; the Cyrillic   *)
(* seed names are transliterated to their first word.  Coordinates are     *)
(* integers in micro-degrees, distances integers in metres.                *)
(***************************************************************************)
EXTENDS Integers, Sequences, FiniteSets, TLC

VARIABLES
    buildings,              \* table buildings: row id = index
    activities,             \* table activities: row id = index
    organizations,          \* table organizations: row id = index
    phones,                 \* table phones: row id = index
    organization_activity,  \* association table: set of <<organization_id, activity_id>>
    pc, kind, key, args, resp, sess, touched,   \* one in-flight request per client
    spc, ssess, slog, nstart,                   \* the startup event of a process
    hist,                   \* history: what each organization row was created from
    tpc, tstart, stack, ids \* one run of get_all_children_ids, call by call

storeVars == <<buildings, activities, organizations, phones, organization_activity>>
reqVars == <<pc, kind, key, args, resp, sess, touched>>
startVars == <<spc, ssess, slog, nstart>>
travVars == <<tpc, tstart, stack, ids>>
vars == <<storeVars, reqVars, startVars, hist, travVars>>

(************************* bounds of the model *****************************)
MaxStartups == 2    \* process startups against the same store
MaxCreates == 1     \* organization rows inserted by POST /organizations/
MaxAct == 4         \* activities of the arbitrary parent relations (traversal)

Clients == {"c1", "c2"}

(***************************** helpers *************************************)
Range(s) == {s[i] : i \in 1..Len(s)}

RECURSIVE Flatten(_)
Flatten(ss) == IF ss = <<>> THEN <<>> ELSE Head(ss) \o Flatten(Tail(ss))

\* the ids of the rows of a table that satisfy Test, in row order
Rows(table, Test(_)) == SelectSeq([i \in 1..Len(table) |-> i], Test)

NoDuplicates(s) == \A i, j \in 1..Len(s) : s[i] = s[j] => i = j

None == [none |-> TRUE]
NoResponse == [status |-> 0]

(************************ the activity traversal ***************************)
max_level == 3

\* the row of an id, as Query.get returns it (None when there is no such row)
GetRow(table, id) == IF id \in 1..Len(table) THEN table[id] ELSE None

\* Activity.children: the rows whose parent_id is this id, in row order
Children(acts, id) == Rows(acts, LAMBDA c : acts[c].parent_id = id)

TooDeep_NoLimit(level) == FALSE
TooDeep_OffByOne(level) == level >= max_level
TooDeep(level) == level > max_level

RECURSIVE get_all_children_ids(_, _, _)
get_all_children_ids(acts, activity_id, level) ==
    IF TooDeep(level) THEN <<>>
    ELSE IF GetRow(acts, activity_id) = None THEN <<>>
    ELSE LET below == [child \in Range(Children(acts, activity_id)) |->
                         get_all_children_ids(acts, child, level + 1)]
         IN <<activity_id>> \o
            Flatten([i \in 1..Len(Children(acts, activity_id)) |->
                       below[Children(acts, activity_id)[i]]])

\* The same recursion one call at a time; stack holds the calls not yet run,
\* the next one first.
TravCall ==
    /\ tpc = "idle"
    /\ \E id \in 1..(Len(activities) + 1) :
         /\ tstart' = id
         /\ stack' = <<[id |-> id, level |-> 1]>>
    /\ ids' = <<>>
    /\ tpc' = "run"
    /\ UNCHANGED <<storeVars, reqVars, startVars, hist>>

TravReturnDepth ==
    /\ tpc = "run" /\ stack # <<>>
    /\ TooDeep(Head(stack).level)
    /\ stack' = Tail(stack)
    /\ UNCHANGED <<tpc, tstart, ids, storeVars, reqVars, startVars, hist>>

TravReturnMissing ==
    /\ tpc = "run" /\ stack # <<>>
    /\ ~TooDeep(Head(stack).level)
    /\ GetRow(activities, Head(stack).id) = None
    /\ stack' = Tail(stack)
    /\ UNCHANGED <<tpc, tstart, ids, storeVars, reqVars, startVars, hist>>

TravVisit ==
    /\ tpc = "run" /\ stack # <<>>
    /\ ~TooDeep(Head(stack).level)
    /\ GetRow(activities, Head(stack).id) # None
    /\ ids' = Append(ids, Head(stack).id)
    /\ LET ch == Children(activities, Head(stack).id)
       IN stack' = [i \in 1..Len(ch) |-> [id |-> ch[i], level |-> Head(stack).level + 1]]
                   \o Tail(stack)
    /\ UNCHANGED <<tpc, tstart, storeVars, reqVars, startVars, hist>>

TravFinish ==
    /\ tpc = "run" /\ stack = <<>>
    /\ tpc' = "done"
    /\ UNCHANGED <<tstart, stack, ids, storeVars, reqVars, startVars, hist>>

TravNext == TravCall \/ TravReturnDepth \/ TravReturnMissing \/ TravVisit \/ TravFinish

(******************************* text **************************************)
UpperCase == <<"A","B","C","D","E","F","G","H","I","J","K","L","M",
               "N","O","P","Q","R","S","T","U","V","W","X","Y","Z">>
LowerCase == <<"a","b","c","d","e","f","g","h","i","j","k","l","m",
               "n","o","p","q","r","s","t","u","v","w","x","y","z">>

LowerChar(c) ==
    IF \E i \in 1..Len(UpperCase) : UpperCase[i] = c
    THEN LowerCase[CHOOSE i \in 1..Len(UpperCase) : UpperCase[i] = c]
    ELSE c

Lower(s) == [i \in 1..Len(s) |-> LowerChar(s[i])]

\* SQL LIKE: % matches any run of characters, _ any one character
RECURSIVE Like(_, _)
Like(pat, s) ==
    IF pat = <<>> THEN s = <<>>
    ELSE IF Head(pat) = "%"
         THEN Like(Tail(pat), s) \/ (s # <<>> /\ Like(pat, Tail(s)))
         ELSE /\ s # <<>>
              /\ (Head(pat) = "_" \/ Head(pat) = Head(s))
              /\ Like(Tail(pat), Tail(s))

\* column.ilike(f"%{text}%"): the text goes into the pattern unescaped
ilike(column, text) ==
    \E pat \in {Lower(<<"%">> \o text \o <<"%">>)} :
        \E s \in {Lower(column)} : Like(pat, s)

(***************************** seed data ***********************************)
Eda == <<"E","d","a">>
Myasnaya == <<"M","y","a","s","n","a","y","a">>
Molochnaya == <<"M","o","l","o","c","h","n","a","y","a">>
Avtomobili == <<"A","v","t","o","m","o","b","i","l","i">>
Gruzovye == <<"G","r","u","z","o","v","y","e">>
Legkovye == <<"L","e","g","k","o","v","y","e">>
Zapchasti == <<"Z","a","p","c","h","a","s","t","i">>
Aksessuary == <<"A","k","s","e","s","s","u","a","r","y">>
RogaIKopyta == <<"O","O","O"," ","R","o","g","a">>
AvtoMir == <<"A","v","t","o","M","i","r">>

SeedBuildings ==
    << [address |-> "Lenina 1", latitude |-> 55755826, longitude |-> 37617300],
       [address |-> "Gagarina 15", latitude |-> 55752565, longitude |-> 37621258] >>

\* parent: position of the parent among the seed activities, 0 for a root
SeedActivities ==
    << [name |-> Eda, parent |-> 0],
       [name |-> Myasnaya, parent |-> 1],
       [name |-> Molochnaya, parent |-> 1],
       [name |-> Avtomobili, parent |-> 0],
       [name |-> Gruzovye, parent |-> 4],
       [name |-> Legkovye, parent |-> 4],
       [name |-> Zapchasti, parent |-> 6],
       [name |-> Aksessuary, parent |-> 6] >>

SeedOrganizations ==
    << [name |-> RogaIKopyta, building |-> 1,
        phones |-> <<"2-222-222", "3-333-333">>, activities |-> <<2, 3>>],
       [name |-> AvtoMir, building |-> 2,
        phones |-> <<"8-923-666-13-13">>, activities |-> <<5, 7>>] >>

\* the rows one run of seed_database adds to tables that hold nb buildings, na
\* activities and no organizations: every id is the next free row id
SeedActivityRows(na) ==
    [i \in 1..Len(SeedActivities) |->
       [name |-> SeedActivities[i].name,
        parent_id |-> IF SeedActivities[i].parent = 0 THEN 0
                      ELSE na + SeedActivities[i].parent]]

SeedOrganizationRows(nb) ==
    [i \in 1..Len(SeedOrganizations) |->
       [name |-> SeedOrganizations[i].name,
        building_id |-> nb + SeedOrganizations[i].building]]

SeedPhoneRows(no) ==
    Flatten([i \in 1..Len(SeedOrganizations) |->
       [j \in 1..Len(SeedOrganizations[i].phones) |->
          [number |-> SeedOrganizations[i].phones[j], organization_id |-> no + i]]])

SeedLinks(no, na) ==
    UNION {{<<no + i, na + a>> : a \in Range(SeedOrganizations[i].activities)} :
             i \in 1..Len(SeedOrganizations)}

SeedHistory ==
    [i \in 1..Len(SeedOrganizations) |->
       [origin |-> "seed", phones |-> <<>>, activity_ids |-> <<>>,
        nacts |-> 0, returned |-> None]]

\* db.add_all([...]); db.commit()
SeedRows ==
    /\ buildings' = buildings \o SeedBuildings
    /\ activities' = activities \o SeedActivityRows(Len(activities))
    /\ organizations' = organizations \o SeedOrganizationRows(Len(buildings))
    /\ phones' = phones \o SeedPhoneRows(Len(organizations))
    /\ organization_activity' = organization_activity
                                \cup SeedLinks(Len(organizations), Len(activities))
    /\ hist' = hist \o SeedHistory

StoreEmpty ==
    /\ buildings = <<>> /\ activities = <<>> /\ organizations = <<>>
    /\ phones = <<>> /\ organization_activity = {}

seed_database_if_empty == IF StoreEmpty THEN SeedRows ELSE UNCHANGED <<storeVars, hist>>
seed_database == SeedRows


(**************************** configuration ********************************)
API_KEY == "SECRET_KEY123"
NoHeader == "(no X-API-Key header)"
Keys == {API_KEY, "WRONG_KEY", NoHeader}

(************************** distance in metres *****************************)
Abs(x) == IF x < 0 THEN -x ELSE x

\* the integer square root of n, by Newton's iteration downwards from a
\* start x >= sqrt(n)
RECURSIVE IsqrtIter(_, _)
IsqrtIter(n, x) ==
    LET y == (x + n \div x) \div 2
    IN IF y >= x THEN x ELSE IsqrtIter(n, y)

\* geopy's geodesic(a, b).meters for points around the seed buildings: the
\* plane approximation at latitude 55.75 (111320 m and 62650 m per degree)
geodesic(a, b) ==
    LET dy == (Abs(a[1] - b[1]) * 11132) \div 100000
        dx == (Abs(a[2] - b[2]) * 6265) \div 100000
    IN IF dy + dx = 0 THEN 0 ELSE IsqrtIter(dy * dy + dx * dx, dy + dx)

(************************* relationships (ORM) *****************************)
\* Organization.building: the row building_id names, None when it names none
OrgBuilding(org_id) == GetRow(buildings, organizations[org_id].building_id)

\* Organization.phones
OrgPhones(org_id) ==
    LET rows == Rows(phones, LAMBDA p : phones[p].organization_id = org_id)
    IN [i \in 1..Len(rows) |-> [number |-> phones[rows[i]].number]]

\* Organization.activities
OrgActivities(org_id) ==
    LET rows == Rows(activities, LAMBDA a : <<org_id, a>> \in organization_activity)
    IN [i \in 1..Len(rows) |-> [id |-> rows[i], name |-> activities[rows[i]].name]]

\* Activity.organizations
ActivityOrganizations(activity_id) ==
    Rows(organizations, LAMBDA o : <<o, activity_id>> \in organization_activity)

\* list.unique of the legacy Query: the first occurrence of each entity is kept
UniqueList(s) ==
    LET first == SelectSeq([i \in 1..Len(s) |-> i],
                           LAMBDA i : \A j \in 1..(i - 1) : s[j] # s[i])
    IN [k \in 1..Len(first) |-> s[first[k]]]

(************************* response serialisation **************************)
\* schemas.Organization built from an ORM row (from_attributes)
OrgView(org_id) ==
    [id |-> org_id,
     name |-> organizations[org_id].name,
     building_id |-> organizations[org_id].building_id,
     phones |-> OrgPhones(org_id),
     activities |-> OrgActivities(org_id),
     building |-> [id |-> organizations[org_id].building_id,
                   address |-> OrgBuilding(org_id).address,
                   latitude |-> OrgBuilding(org_id).latitude,
                   longitude |-> OrgBuilding(org_id).longitude]]

\* the field building: Building is required: a row whose building is None fails
\* the response validation, and the request ends in a server error
Validates(org_id) == OrgBuilding(org_id) # None

ResponseError == [status |-> 500, detail |-> "ResponseValidationError"]
StorageError == [status |-> 500, detail |-> "storage error"]

SerializeList(orgs) ==
    IF \A i \in 1..Len(orgs) : Validates(orgs[i])
    THEN [status |-> 200, body |-> [i \in 1..Len(orgs) |-> OrgView(orgs[i])]]
    ELSE ResponseError

SerializeOne(org_id) ==
    IF Validates(org_id) THEN [status |-> 200, body |-> OrgView(org_id)]
    ELSE ResponseError

(****************************** the queries ********************************)
\* each returns the organizations (row ids) the handler's query yields

get_orgs_by_building(building_id) ==
    Rows(organizations, LAMBDA o : organizations[o].building_id = building_id)

get_orgs_by_activity(activity_id) ==
    IF GetRow(activities, activity_id) = None THEN <<>>
    ELSE ActivityOrganizations(activity_id)

\* query(Organization).join(Building): the organizations whose building exists
JoinBuilding == Rows(organizations, LAMBDA o : OrgBuilding(o) # None)

get_orgs_in_radius_strict(lat, lon, radius) ==
    SelectSeq(JoinBuilding,
              LAMBDA o : geodesic(<<lat, lon>>,
                                  <<OrgBuilding(o).latitude, OrgBuilding(o).longitude>>)
                         < radius)
get_orgs_in_radius(lat, lon, radius) ==
    SelectSeq(JoinBuilding,
              LAMBDA o : geodesic(<<lat, lon>>,
                                  <<OrgBuilding(o).latitude, OrgBuilding(o).longitude>>)
                         <= radius)

\* filter(name ILIKE pattern, parent_id IS NULL).first(): 0 when no row matches
RootActivity(activity_name) ==
    LET rows == {a \in 1..Len(activities) :
                   /\ ilike(activities[a].name, activity_name)
                   /\ activities[a].parent_id = 0}
    IN IF rows = {} THEN 0 ELSE CHOOSE a \in rows : \A b \in rows : a <= b

\* query(Organization).join(Organization.activities).filter(Activity.id.in_(ids)):
\* one row per (organization, matching activity), then the entities made unique
JoinActivities(all_activity_ids) ==
    Flatten([o \in 1..Len(organizations) |->
       LET hit == Rows(activities, LAMBDA a : /\ <<o, a>> \in organization_activity
                                               /\ a \in Range(all_activity_ids))
       IN [i \in 1..Len(hit) |-> o]])

search_orgs_by_activity_tree(activity_name) ==
    LET answer[root_activity \in 0..Len(activities)] ==
            IF root_activity = 0 THEN <<>>
            ELSE UniqueList(JoinActivities(
                   get_all_children_ids(activities, root_activity, 1)))
    IN answer[RootActivity(activity_name)]

search_orgs_by_name(name) ==
    Rows(organizations, LAMBDA o : ilike(organizations[o].name, name))


(*************************** request inputs ********************************)
Endpoints == {"by_building", "by_activity", "nearby", "get", "search_activity",
              "search_name", "create"}

BuildingIds == {1, 99}
ActivityIds == {2, 99}
Centers == {<<55755826, 37617300>>, <<55752565, 37617300>>}
Radii == {0, 362, 363, 1000}
ActivityTexts == {<<"e","d","a">>, <<"g","r","u","z">>, <<"a","v","t","o">>, <<"_">>}
\* the first organization, the last one, and an id no organization has
OrgIds == {1, Len(organizations), Len(organizations) + 1} \ {0}
NameTexts == {<<"r","o","g","a">>, <<"n","e","w">>}
NewName == <<"N","e","w">>

\* the bodies of POST /organizations/ (OrganizationCreate): one in an existing
\* building, with an activity id that does not resolve; one in a building that
\* does not exist, with an activity id given twice
CreateBodies ==
    {[name |-> NewName, building_id |-> 1,
      phones |-> <<"111", "222">>, activity_ids |-> <<2, 3, 99>>],
     [name |-> NewName, building_id |-> 99,
      phones |-> <<"111">>, activity_ids |-> <<2, 2>>]}

NumCreated == Cardinality({i \in 1..Len(hist) : hist[i].origin = "create"})

\* the creates that have not yet inserted their organization row
CreatesInFlight ==
    Cardinality({c \in Clients : kind[c] = "create" /\ pc[c] \in {"auth", "handler"}})

\* the application serves requests once a startup event has completed
Started == nstart >= 2 \/ (nstart = 1 /\ spc = "idle")

(************************* the request pipeline ****************************)
\* Depends(get_db), the first parameter of every handler: SessionLocal()
GetDbFor(r, routes) ==
    /\ pc[r] = "idle" /\ Started
    /\ \E k \in routes :
         /\ k = "create" => NumCreated + CreatesInFlight < MaxCreates
         /\ kind' = [kind EXCEPT ![r] = k]
    /\ sess' = [sess EXCEPT ![r] = "open"]
    /\ resp' = [resp EXCEPT ![r] = NoResponse]
    /\ pc' = [pc EXCEPT ![r] = "auth"]
    /\ UNCHANGED <<key, args, touched, storeVars, startVars, hist, travVars>>

GetDb(r) == GetDbFor(r, Endpoints)

\* the outcome of Depends(verify_api_key): a required header that is absent is a
\* request validation error, and the function is not called
verify_api_key_accept_all(api_key) == 200
verify_api_key(api_key) ==
    IF api_key = NoHeader THEN 422
    ELSE IF api_key # API_KEY THEN 403
    ELSE 200

\* Depends(verify_api_key), the second parameter: it runs with the session open
Authorize(r) ==
    /\ pc[r] = "auth"
    /\ \E h \in Keys :
         /\ key' = [key EXCEPT ![r] = h]
         /\ IF verify_api_key(h) = 200
            THEN /\ pc' = [pc EXCEPT ![r] = "handler"]
                 /\ resp' = resp
            ELSE /\ pc' = [pc EXCEPT ![r] = "cleanup"]
                 /\ resp' = [resp EXCEPT ![r] =
                      [status |-> verify_api_key(h),
                       detail |-> IF h = NoHeader THEN "Field required"
                                  ELSE "Invalid API Key"]]
    /\ UNCHANGED <<kind, args, sess, touched, storeVars, startVars, hist, travVars>>

\* a handler that only reads: its query and the serialisation of the result
Answer(r, a, result) ==
    /\ args' = [args EXCEPT ![r] = a]
    /\ resp' = [resp EXCEPT ![r] = result]
    /\ touched' = [touched EXCEPT ![r] = TRUE]
    /\ pc' = [pc EXCEPT ![r] = "cleanup"]
    /\ UNCHANGED <<kind, key, sess, storeVars, startVars, hist, travVars>>

HandleByBuilding(r) ==
    /\ pc[r] = "handler" /\ kind[r] = "by_building"
    /\ \E b \in BuildingIds :
         Answer(r, [building_id |-> b], SerializeList(get_orgs_by_building(b)))

HandleByActivity(r) ==
    /\ pc[r] = "handler" /\ kind[r] = "by_activity"
    /\ \E a \in ActivityIds :
         Answer(r, [activity_id |-> a], SerializeList(get_orgs_by_activity(a)))

HandleNearby(r) ==
    /\ pc[r] = "handler" /\ kind[r] = "nearby"
    /\ \E c \in Centers, radius \in {0, 363, 1000} :
         Answer(r, [lat |-> c[1], lon |-> c[2], radius |-> radius],
                SerializeList(get_orgs_in_radius(c[1], c[2], radius)))

get_organization(org_id) ==
    IF GetRow(organizations, org_id) = None
    THEN [status |-> 404, detail |-> "Organization not found"]
    ELSE SerializeOne(org_id)

HandleGet(r) ==
    /\ pc[r] = "handler" /\ kind[r] = "get"
    /\ \E id \in OrgIds :
         Answer(r, [org_id |-> id], get_organization(id))

HandleSearchActivity(r) ==
    /\ pc[r] = "handler" /\ kind[r] = "search_activity"
    /\ \E t \in ActivityTexts :
         \E found \in {search_orgs_by_activity_tree(t)} :
            Answer(r, [activity_name |-> t], SerializeList(found))

HandleSearchName(r) ==
    /\ pc[r] = "handler" /\ kind[r] = "search_name"
    /\ \E t \in NameTexts :
         Answer(r, [name |-> t], SerializeList(search_orgs_by_name(t)))

\* create_organization up to its first commit: the organization row alone
CreateInsert(r) ==
    /\ pc[r] = "handler" /\ kind[r] = "create"
    /\ \E body \in CreateBodies :
         /\ organizations' = Append(organizations,
                [name |-> body.name, building_id |-> body.building_id])
         /\ args' = [args EXCEPT ![r] =
                [org_id |-> Len(organizations) + 1, phones |-> body.phones,
                 activity_ids |-> body.activity_ids]]
         /\ hist' = Append(hist,
                [origin |-> "create", phones |-> body.phones,
                 activity_ids |-> body.activity_ids, nacts |-> 0, returned |-> None])
    /\ touched' = [touched EXCEPT ![r] = TRUE]
    /\ pc' = [pc EXCEPT ![r] = "create2"]
    /\ UNCHANGED <<kind, key, resp, sess, buildings, activities, phones,
                   organization_activity, startVars, travVars>>

\* the activity ids of the request that Query.get resolves
Resolve(activity_ids) == {a \in Range(activity_ids) : GetRow(activities, a) # None}

\* the phones of the request, as rows of the organization
NoPhoneRows(org_id, numbers) == <<>>
PhoneRows(org_id, numbers) ==
    [i \in 1..Len(numbers) |-> [number |-> numbers[i], organization_id |-> org_id]]

\* create_organization from the phones to its second commit; the association
\* table holds one row per (organization, activity) pair, so an id supplied
\* twice leaves one link when the commit succeeds (StorageFailure is the commit
\* that raises)
CreateAttach(r) ==
    /\ pc[r] = "create2"
    /\ phones' = phones \o PhoneRows(args[r].org_id, args[r].phones)
    /\ organization_activity' = organization_activity \cup
         {<<args[r].org_id, a>> : a \in Resolve(args[r].activity_ids)}
    /\ hist' = [hist EXCEPT ![args[r].org_id].nacts = Len(activities)]
    /\ pc' = [pc EXCEPT ![r] = "serialize"]
    /\ UNCHANGED <<kind, key, args, resp, sess, touched, buildings, activities,
                   organizations, startVars, travVars>>

\* the returned row serialised through response_model
CreateRespond(r) ==
    /\ pc[r] = "serialize"
    /\ resp' = [resp EXCEPT ![r] = SerializeOne(args[r].org_id)]
    /\ hist' = [hist EXCEPT ![args[r].org_id].returned =
                  IF Validates(args[r].org_id) THEN OrgView(args[r].org_id) ELSE None]
    /\ pc' = [pc EXCEPT ![r] = "cleanup"]
    /\ UNCHANGED <<kind, key, args, sess, touched, storeVars, startVars, travVars>>

\* a query or a commit raises: the error propagates, what was committed stays
StorageFailure(r) ==
    /\ pc[r] \in {"handler", "create2"}
    /\ resp' = [resp EXCEPT ![r] = StorageError]
    /\ touched' = [touched EXCEPT ![r] = TRUE]
    /\ pc' = [pc EXCEPT ![r] = "cleanup"]
    /\ UNCHANGED <<kind, key, args, sess, storeVars, startVars, hist, travVars>>

\* get_db's finally: db.close(), however the request ended; of the request only
\* the status it ended with is kept
CloseSession_OnSuccessOnly(r) == IF resp[r].status < 400 THEN "closed" ELSE sess[r]
CloseSession(r) == "closed"

Cleanup(r) ==
    /\ pc[r] = "cleanup"
    /\ sess' = [sess EXCEPT ![r] = IF sess[r] = "open" THEN CloseSession(r) ELSE sess[r]]
    /\ pc' = [pc EXCEPT ![r] = "idle"]
    /\ kind' = [kind EXCEPT ![r] = "none"]
    /\ key' = [key EXCEPT ![r] = NoHeader]
    /\ args' = [args EXCEPT ![r] = None]
    /\ resp' = [resp EXCEPT ![r] = [status |-> resp[r].status]]
    /\ touched' = [touched EXCEPT ![r] = FALSE]
    /\ UNCHANGED <<storeVars, startVars, hist, travVars>>

\* GET /: no dependency, a redirect to the documentation
Root(r) ==
    /\ pc[r] = "idle" /\ Started
    /\ kind' = [kind EXCEPT ![r] = "root"]
    /\ \E h \in Keys : key' = [key EXCEPT ![r] = h]
    /\ sess' = [sess EXCEPT ![r] = "none"]
    /\ resp' = [resp EXCEPT ![r] = [status |-> 307, detail |-> "/api/docs"]]
    /\ pc' = [pc EXCEPT ![r] = "cleanup"]
    /\ UNCHANGED <<args, touched, storeVars, startVars, hist, travVars>>

(****************************** startup ************************************)
\* create_tables() and db = next(get_db())
StartupBegin ==
    /\ spc = "idle" /\ nstart < MaxStartups
    /\ nstart' = nstart + 1
    /\ ssess' = "open"
    /\ slog' = ""
    /\ spc' = "seed"
    /\ UNCHANGED <<storeVars, reqVars, hist, travVars>>

StartupSeed ==
    /\ spc = "seed"
    /\ seed_database
    /\ slog' = "Database seeded successfully"
    /\ spc' = "close"
    /\ UNCHANGED <<ssess, nstart, reqVars, travVars>>

\* except Exception: the error is printed, nothing is committed
StartupSeedError ==
    /\ spc = "seed"
    /\ slog' = "Error seeding database"
    /\ spc' = "close"
    /\ UNCHANGED <<ssess, nstart, storeVars, reqVars, hist, travVars>>

\* finally: db.close()
StartupClose ==
    /\ spc = "close"
    /\ ssess' = "closed"
    /\ spc' = "idle"
    /\ UNCHANGED <<slog, nstart, storeVars, reqVars, hist, travVars>>

(*************************** specifications ********************************)
Init ==
    /\ buildings = <<>> /\ activities = <<>> /\ organizations = <<>>
    /\ phones = <<>> /\ organization_activity = {}
    /\ pc = [r \in Clients |-> "idle"]
    /\ kind = [r \in Clients |-> "none"]
    /\ key = [r \in Clients |-> NoHeader]
    /\ args = [r \in Clients |-> None]
    /\ resp = [r \in Clients |-> NoResponse]
    /\ sess = [r \in Clients |-> "none"]
    /\ touched = [r \in Clients |-> FALSE]
    /\ spc = "idle" /\ ssess = "none" /\ slog = "" /\ nstart = 0
    /\ hist = <<>>
    /\ tpc = "idle" /\ tstart = 0 /\ stack = <<>> /\ ids = <<>>

RequestStep(r) ==
    \/ GetDb(r) \/ Authorize(r) \/ Root(r)
    \/ HandleByBuilding(r) \/ HandleByActivity(r) \/ HandleNearby(r) \/ HandleGet(r)
    \/ HandleSearchActivity(r) \/ HandleSearchName(r)
    \/ CreateInsert(r) \/ CreateAttach(r) \/ CreateRespond(r)
    \/ StorageFailure(r) \/ Cleanup(r)

StartupStep == StartupBegin \/ StartupSeed \/ StartupSeedError \/ StartupClose

\* one worker serving requests one after the other, beside the startup of a process
Next == RequestStep("c1") \/ StartupStep

Spec == Init /\ [][Next]_vars

\* a request, once its session is open, runs to its teardown; so does a startup
Running(r) ==
    \/ Authorize(r)
    \/ HandleByBuilding(r) \/ HandleByActivity(r) \/ HandleNearby(r) \/ HandleGet(r)
    \/ HandleSearchActivity(r) \/ HandleSearchName(r)
    \/ CreateInsert(r) \/ CreateAttach(r) \/ CreateRespond(r)
    \/ StorageFailure(r) \/ Cleanup(r)

FairSpec ==
    /\ Spec
    /\ WF_vars(Running("c1"))
    /\ WF_vars(StartupSeed \/ StartupSeedError \/ StartupClose)

\* two workers serving POST /organizations/ and GET /organizations/{org_id}
\* concurrently
GetDbConcurrent(r) == GetDbFor(r, {"get", "create"})

ConcurrentStep(r) ==
    \/ GetDbConcurrent(r) \/ Authorize(r) \/ HandleGet(r)
    \/ CreateInsert(r) \/ CreateAttach(r) \/ CreateRespond(r)
    \/ StorageFailure(r) \/ Cleanup(r)

NextConcurrent == \E r \in Clients : ConcurrentStep(r)

\* the state a first startup leaves: the seed rows, the application serving
InitConcurrent ==
    /\ buildings = SeedBuildings
    /\ activities = SeedActivityRows(0)
    /\ organizations = SeedOrganizationRows(0)
    /\ phones = SeedPhoneRows(0)
    /\ organization_activity = SeedLinks(0, 0)
    /\ pc = [r \in Clients |-> "idle"]
    /\ kind = [r \in Clients |-> "none"]
    /\ key = [r \in Clients |-> NoHeader]
    /\ args = [r \in Clients |-> None]
    /\ resp = [r \in Clients |-> NoResponse]
    /\ sess = [r \in Clients |-> "none"]
    /\ touched = [r \in Clients |-> FALSE]
    /\ spc = "idle" /\ ssess = "closed" /\ slog = "Database seeded successfully"
    /\ nstart = 1
    /\ hist = SeedHistory
    /\ tpc = "idle" /\ tstart = 0 /\ stack = <<>> /\ ids = <<>>

SpecConcurrent == InitConcurrent /\ [][NextConcurrent]_vars

\* the traversal over every parent relation on MaxAct activities, cycles included
InitTraversal ==
    /\ buildings = <<>> /\ organizations = <<>>
    /\ phones = <<>> /\ organization_activity = {}
    /\ activities \in {[i \in 1..MaxAct |-> [name |-> <<>>, parent_id |-> f[i]]] :
                          f \in [1..MaxAct -> 0..MaxAct]}
    /\ pc = [r \in Clients |-> "idle"]
    /\ kind = [r \in Clients |-> "none"]
    /\ key = [r \in Clients |-> NoHeader]
    /\ args = [r \in Clients |-> None]
    /\ resp = [r \in Clients |-> NoResponse]
    /\ sess = [r \in Clients |-> "none"]
    /\ touched = [r \in Clients |-> FALSE]
    /\ spc = "idle" /\ ssess = "none" /\ slog = "" /\ nstart = 0
    /\ hist = <<>>
    /\ tpc = "idle" /\ tstart = 0 /\ stack = <<>> /\ ids = <<>>

SpecTraversal == InitTraversal /\ [][TravNext]_vars


(***************************************************************************)
(* Properties of the traversal (specification SpecTraversal)               *)
(***************************************************************************)
RECURSIVE ReachesRoot(_, _, _)
ReachesRoot(acts, a, n) ==
    IF a = 0 THEN TRUE
    ELSE IF n = 0 THEN FALSE
    ELSE ReachesRoot(acts, acts[a].parent_id, n - 1)

\* the parent relation is a forest: every parent chain ends at a root
IsForest(acts) == \A a \in 1..Len(acts) : ReachesRoot(acts, a, Len(acts))

ChildSet(acts, S) == {c \in 1..Len(acts) : acts[c].parent_id \in S}

\* the start node, its children and its grandchildren
Within3(acts, id) ==
    IF id \notin 1..Len(acts) THEN {}
    ELSE {id} \cup ChildSet(acts, {id}) \cup ChildSet(acts, ChildSet(acts, {id}))

GreatGrandchildren(acts, id) == ChildSet(acts, ChildSet(acts, ChildSet(acts, {id})))

\* C2: on every forest, descendantClosure(id) is empty for an id that does not
\* exist, and otherwise exactly id, its children and its grandchildren (levels 1
\* to 3); great-grandchildren and deeper activities are not in it.  The recursive
\* function and its call-by-call run agree.
C2_ClosureIsThreeLevels ==
    (tpc = "done" /\ IsForest(activities)) =>
        /\ Range(ids) = Within3(activities, tstart)
        /\ (GetRow(activities, tstart) = None => ids = <<>>)
        /\ (GetRow(activities, tstart) # None => tstart \in Range(ids))
        /\ Range(ids) \cap GreatGrandchildren(activities, tstart) = {}
        /\ ids = get_all_children_ids(activities, tstart, 1)

\* C2 witness: a finished traversal of a forest from a node that has a
\* great-grandchild, which the result leaves out
C2_Witness ==
    /\ tpc = "done" /\ IsForest(activities)
    /\ GreatGrandchildren(activities, tstart) # {}
    /\ Cardinality(Range(ids)) >= 3
    /\ Range(ids) \cap GreatGrandchildren(activities, tstart) = {}

\* what one pending call can still cost: itself and, below the depth limit, the
\* calls for at most Len(activities) children
RECURSIVE Weight(_)
Weight(level) ==
    IF level > max_level THEN 1 ELSE 1 + Len(activities) * Weight(level + 1)

RECURSIVE Measure(_)
Measure(st) == IF st = <<>> THEN 0 ELSE Weight(Head(st).level) + Measure(Tail(st))

\* C10 (as amended): the traversal has no visited set; it terminates on every
\* parent relation, cyclic ones included, only because of the depth limit: no
\* call is made below level max_level + 1, every call strictly decreases the
\* work left, and at most 1 + n + n*n ids are contributed for n activities.
C10_TerminatesByDepthLimit ==
    /\ [](/\ \A i \in 1..Len(stack) : stack[i].level <= max_level + 1
          /\ Len(ids) <= 1 + Len(activities) + Len(activities) * Len(activities))
    /\ [][(tpc = "run" /\ stack # <<>>) => Measure(stack') < Measure(stack)]_vars

\* C10 witness: a finished traversal of a cyclic parent relation in which an
\* activity was contributed more than once
C10_Witness ==
    /\ tpc = "done" /\ ~IsForest(activities)
    /\ ~NoDuplicates(ids)

\* C10 as claimed: a visited activity is not expanded again, so no activity is
\* contributed twice
C10_NoRevisit == NoDuplicates(ids)


(***************************************************************************)
(* Properties of the store and the request pipeline                        *)
(***************************************************************************)
Numbers(phone_list) == [i \in 1..Len(phone_list) |-> phone_list[i].number]
ActivityIdsOf(activity_list) == {activity_list[i].id : i \in 1..Len(activity_list)}

\* C1 as claimed: create is atomic; whatever another request reads, a created
\* organization is absent or has all its supplied phones and all its resolvable
\* activity links: no answer of GET /organizations/{org_id} shows it without them.
C1_CreateAtomic ==
    \A r \in Clients :
        (kind[r] = "get" /\ pc[r] = "cleanup" /\ resp[r].status = 200
         /\ hist[resp[r].body.id].origin = "create")
        => /\ Numbers(resp[r].body.phones) = hist[resp[r].body.id].phones
           /\ \A a \in Range(hist[resp[r].body.id].activity_ids) :
                GetRow(activities, a) # None
                => a \in ActivityIdsOf(resp[r].body.activities)

\* a text contains a substring, letter case ignored
Contains(text, sub) ==
    \E i \in 0..(Len(text) - Len(sub)) :
        SubSeq(Lower(text), i + 1, i + Len(sub)) = Lower(sub)

MatchingRoots(sub) ==
    {a \in 1..Len(activities) :
        activities[a].parent_id = 0 /\ Contains(activities[a].name, sub)}

FirstOf(S) == CHOOSE a \in S : \A b \in S : a <= b

TaggedWithin(S) ==
    {o \in 1..Len(organizations) : \E a \in S : <<o, a>> \in organization_activity}

\* C3 as claimed: searchByActivityTree is empty when no root activity contains
\* the substring (letter case ignored), even if a non-root activity does;
\* otherwise it is exactly the organizations tagged within the closure of the
\* first matching root, each once.
C3_SearchByActivityTree ==
    \A t \in ActivityTexts :
        LET found == search_orgs_by_activity_tree(t)
        IN /\ MatchingRoots(t) = {} => found = <<>>
           /\ MatchingRoots(t) # {} =>
                 /\ Range(found) =
                      TaggedWithin(Within3(activities, FirstOf(MatchingRoots(t))))
                 /\ NoDuplicates(found)

InRadius(c, radius) ==
    {o \in 1..Len(organizations) :
        /\ OrgBuilding(o) # None
        /\ geodesic(c, <<OrgBuilding(o).latitude, OrgBuilding(o).longitude>>) <= radius}

\* C4: for every store, center and radius, listInRadius returns exactly the
\* organizations whose building lies at a distance <= radius from the center
\* (the boundary included), and a larger radius never removes an organization.
C4_RadiusExactAndMonotone ==
    \A c \in Centers :
        \A found \in {[r \in Radii |-> get_orgs_in_radius(c[1], c[2], r)]} :
            \A r1 \in Radii :
                /\ Range(found[r1]) = InRadius(c, r1)
                /\ NoDuplicates(found[r1])
                /\ \A r2 \in Radii :
                     r1 <= r2 => Range(found[r1]) \subseteq Range(found[r2])

\* C4 witness: a radius query answered with an organization whose building lies
\* exactly at the radius, while a smaller radius leaves it out and an
\* organization with no building is in the store
C4_Witness ==
    \E r \in Clients :
        /\ kind[r] = "nearby" /\ pc[r] = "cleanup" /\ resp[r].status = 200
        /\ \E i \in 1..Len(resp[r].body) :
             geodesic(<<args[r].lat, args[r].lon>>,
                      <<resp[r].body[i].building.latitude,
                        resp[r].body[i].building.longitude>>) = args[r].radius
        /\ args[r].radius > 0
        /\ get_orgs_in_radius(args[r].lat, args[r].lon, args[r].radius - 1)
           # get_orgs_in_radius(args[r].lat, args[r].lon, args[r].radius)
        /\ \E o \in 1..Len(organizations) : OrgBuilding(o) = None

Rejected(r) == kind[r] \in Endpoints /\ pc[r] = "cleanup" /\ key[r] # API_KEY

\* C5 as claimed: a request to any endpoint but the root whose key is absent or
\* wrong ends in 403, and no storage session was acquired nor the store touched.
C5_RejectedBeforeSession ==
    \A r \in Clients :
        Rejected(r) => /\ resp[r].status = 403
                       /\ sess[r] = "none"
                       /\ ~touched[r]

\* C5 (as amended): such a request ends in 403 when the key is wrong and in a
\* request validation failure (422) when the header is absent; either way the
\* handler does not run and the store is neither read nor written for it.  The
\* storage session is acquired before the key is checked and is still to be
\* released when the request is rejected.
C5_RejectedBeforeHandler ==
    \A r \in Clients :
        /\ Rejected(r) => /\ resp[r].status = IF key[r] = NoHeader THEN 422 ELSE 403
                          /\ ~touched[r]
                          /\ args[r] = None
                          /\ sess[r] = "open"
        /\ pc[r] \in {"handler", "create2", "serialize"} => key[r] = API_KEY
        /\ touched[r] => key[r] = API_KEY

\* C5 witness: a request without the header, rejected with its session open
C5_Witness ==
    \E r \in Clients :
        /\ Rejected(r) /\ key[r] = NoHeader /\ resp[r].status = 422
        /\ sess[r] = "open" /\ kind[r] = "by_building"

\* C6: after a successful create, getById of the returned id yields the
\* organization create returned, field for field; its phones are the supplied
\* numbers and its activities the supplied ids that existed when the create
\* resolved them.
C6_RoundTrip ==
    /\ \A o \in 1..Len(hist) :
         hist[o].returned # None =>
            /\ get_organization(o).status = 200
            /\ get_organization(o).body = hist[o].returned
            /\ get_organization(o).body.id = o
            /\ Numbers(get_organization(o).body.phones) = hist[o].phones
            /\ ActivityIdsOf(get_organization(o).body.activities)
               = {a \in Range(hist[o].activity_ids) : a \in 1..hist[o].nacts}
            /\ Len(get_organization(o).body.activities)
               = Cardinality(ActivityIdsOf(get_organization(o).body.activities))
    /\ \A r \in Clients :
         (kind[r] = "get" /\ pc[r] = "cleanup" /\ resp[r].status = 200
          /\ hist[resp[r].body.id].returned # None)
         => resp[r].body = hist[resp[r].body.id].returned

\* C6 witness: a getById answered for an organization that a create returned
\* with two phones, two attached activities and one skipped activity id
C6_Witness ==
    \E r \in Clients :
        /\ kind[r] = "get" /\ pc[r] = "cleanup" /\ resp[r].status = 200
        /\ hist[resp[r].body.id].returned # None
        /\ Len(resp[r].body.phones) = 2
        /\ Len(resp[r].body.activities) = 2
        /\ 99 \in Range(hist[resp[r].body.id].activity_ids)

\* C7 as claimed: a create whose building_id matches no building does not fail:
\* the organization is stored and returned populated.
C7_DanglingBuildingAccepted ==
    \A r \in Clients :
        (kind[r] = "create" /\ pc[r] = "cleanup" /\ key[r] = API_KEY
         /\ resp[r] # StorageError /\ OrgBuilding(args[r].org_id) = None)
        => /\ resp[r].status = 200
           /\ resp[r].body.id = args[r].org_id

SeedStep == spc = "seed" /\ slog' = "Database seeded successfully"

Roots == {a \in 1..Len(activities) : activities[a].parent_id = 0}

\* C8 as claimed: a startup that finds the store populated adds no rows.
C8_SeedOnlyWhenEmpty ==
    [][(SeedStep /\ ~StoreEmpty) => storeVars' = storeVars]_vars

\* C8 (as amended): seeding is unconditional: every startup whose seeding
\* commits adds the seed rows (2 buildings, 8 activities of which 2 roots, 2
\* organizations, 3 phones, 4 activity links) after the rows already there,
\* whether or not the store was empty.
C8_SeedUnconditional ==
    [][SeedStep =>
         /\ buildings' = buildings \o SeedBuildings
         /\ Len(activities') = Len(activities) + 8
         /\ SubSeq(activities', 1, Len(activities)) = activities
         /\ Cardinality(Roots') = Cardinality(Roots) + 2
         /\ Len(organizations') = Len(organizations) + 2
         /\ SubSeq(organizations', 1, Len(organizations)) = organizations
         /\ Len(phones') = Len(phones) + 3
         /\ Cardinality(organization_activity') = Cardinality(organization_activity) + 4
      ]_vars

\* C8 witness: the seed rows are in the store twice
C8_Witness ==
    /\ Len(buildings) = 4 /\ Len(activities) = 16
    /\ buildings[3] = buildings[1]
    /\ organizations[Len(organizations)].name = AvtoMir
    /\ Cardinality({o \in 1..Len(organizations) : organizations[o].name = AvtoMir}) = 2

\* C9: every storage session acquired for a request or for the startup seeding
\* is eventually released, however the handler ended; no completed request or
\* startup leaves its session open.
C9_SessionsReleased ==
    /\ \A r \in Clients : (sess[r] = "open") ~> (sess[r] = "closed")
    /\ (ssess = "open") ~> (ssess = "closed")
    /\ [](\A r \in Clients : pc[r] = "idle" => sess[r] # "open")
    /\ [](spc = "idle" => ssess # "open")

\* C9 witness: a request that ended in NotFound and a startup whose seeding
\* raised, both with their session released
C9_Witness ==
    /\ \E r \in Clients : pc[r] = "idle" /\ resp[r].status = 404 /\ sess[r] = "closed"
    /\ spc = "idle" /\ slog = "Error seeding database" /\ ssess = "closed"


====
